---------------------------- MODULE Spec2Model ----------------------------
(***************************************************************************)
(* A model of scripts/yse/build_parent_sample.py: the conversion of a      *)
(* directory of per-object SNANA light-curve files into one HDF5 container *)
(* per object, grouped in directories by healpix.                          *)
(*                                                                         *)
(* main() is one sequential procedure.  The variable pc is its position;   *)
(* every action is one straight-line stretch of main or one iteration of   *)
(* one of its loops.  An uncaught exception ends the run in pc = "raised". *)
(*                                                                         *)
(* Representation of values:                                               *)
(*   - a field name is a string;                                           *)
(*   - a band label, a directory name and a file name are sequences of     *)
(*     character codes, compared as Python and numpy compare strings;      *)
(*   - an observation value is an integer (float64 in the program; the     *)
(*     narrowing to float32 is Float32 below);                             *)
(*   - a metadata scalar is a record [nan, v]: not-a-number or a number.   *)
(***************************************************************************)
EXTENDS Integers, Sequences, FiniteSets, TLC

VARIABLES
    pc,                     \* position in main
    files,                  \* os.listdir(file_dir): the corpus, in listing order
    input_dir,              \* TRUE while args.yse_data_path exists
    keys_metadata,          \* list of metadata field names
    keys_data,              \* list of observation field names
    data,                   \* dict: observation field -> list of per-file arrays
    metadata,               \* dict: metadata field -> list (later array) of scalars
    all_bands,              \* the band vocabulary
    i,                      \* number of completed iterations of the current loop
    d,                      \* per field, the padded per-band rows of the example aligned last
    lightcurve,             \* list of core tensors
    lightcurve_additional,  \* list of auxiliary tensors
    out_dirs,               \* directories under args.output_dir
    out_files,              \* files under args.output_dir: path -> container
    err,                    \* the exception that ended the run ("" for none)
    probe                   \* inputs and results of the naming and denylist functions applied alone

vars == <<pc, files, input_dir, keys_metadata, keys_data, data, metadata,
          all_bands, i, d, lightcurve, lightcurve_additional, out_dirs,
          out_files, err, probe>>

-----------------------------------------------------------------------------
(* Bounds *)

\* Largest number of files in the input directory (pipeline runs).
MaxFiles == 3

\* Largest number of observation rows of an enumerated file (alignment runs).
MaxObs == 4

\* Largest length of an enumerated field list (denylist runs).
MaxKeys == 4

\* Largest enumerated corpus size when file names are formed alone.
MaxExamples == 12

-----------------------------------------------------------------------------
(* Sequences *)

Range(s) == {s[k] : k \in DOMAIN s}

RECURSIVE Concat(_)
\* np.concatenate of a list of 1-d arrays
Concat(arrs) ==
    IF arrs = <<>> THEN <<>> ELSE Head(arrs) \o Concat(Tail(arrs))

RECURSIVE Repeat(_, _)
Repeat(x, k) == IF k <= 0 THEN <<>> ELSE <<x>> \o Repeat(x, k - 1)

\* the indices, ascending, at which s holds x
Positions(s, x) == {k \in DOMAIN s : s[k] = x}

\* Lexicographic order of two sequences of character codes (str.__lt__).
RECURSIVE LexLess(_, _)
LexLess(a, b) ==
    IF a = <<>> THEN b # <<>>
    ELSE IF b = <<>> THEN FALSE
    ELSE IF Head(a) # Head(b) THEN Head(a) < Head(b)
    ELSE LexLess(Tail(a), Tail(b))

RECURSIVE SortedSeq(_)
\* the elements of a set of strings, ascending
SortedSeq(S) ==
    IF S = {} THEN <<>>
    ELSE LET m == CHOOSE x \in S : \A y \in S : x = y \/ LexLess(x, y)
         IN  <<m>> \o SortedSeq(S \ {m})

RECURSIVE FirstOccurrences(_)
\* the distinct elements of a sequence, in order of first occurrence
FirstOccurrences(s) ==
    IF s = <<>> THEN <<>>
    ELSE LET r == FirstOccurrences(SubSeq(s, 1, Len(s) - 1))
         IN  IF s[Len(s)] \in Range(r) THEN r ELSE Append(r, s[Len(s)])


-----------------------------------------------------------------------------
(* Scalars and the numpy, str and healpy functions main calls *)

\* np.nan
NaN == [nan |-> TRUE, v |-> 0]

Num(x) == [nan |-> FALSE, v |-> x]

\* 2^24: up to here float32 holds every integer
TwoTo24 == 16777216

\* astype(np.float32) of an integer below 2^25: exact up to 2^24, then
\* rounded to the nearest multiple of 2, a tie going to the even mantissa.
Float32(x) ==
    LET a == IF x < 0 THEN -x ELSE x
        r == IF a <= TwoTo24 \/ a % 2 = 0 THEN a
             ELSE IF (a + 1) % 4 = 0 THEN a + 1 ELSE a - 1
    IN  IF x < 0 THEN -r ELSE r

\* int(np.char.str_len(arr).max()) of get_str_dtype; 0 stands for the
\* empty array, which main never converts.
str_max_len(arr) ==
    IF arr = <<>> THEN 0
    ELSE CHOOSE m \in {Len(arr[k]) : k \in DOMAIN arr} :
            \A k \in DOMAIN arr : Len(arr[k]) <= m

\* convert_dtype of a string array: astype to the fixed width str_max_len,
\* which keeps the first str_max_len characters of every element.
convert_dtype_str(arr) ==
    LET w == str_max_len(arr)
    IN  [k \in DOMAIN arr |->
            IF Len(arr[k]) <= w THEN arr[k] ELSE SubSeq(arr[k], 1, w)]

\* convert_dtype of a floating array: astype(np.float32)
convert_dtype_float(arr) ==
    [k \in DOMAIN arr |->
        IF arr[k].nan THEN NaN ELSE Num(Float32(arr[k].v))]

\* unique without the sort: a faulty variant the properties must reject
unique_unsorted(arr) == FirstOccurrences(arr)

\* np.unique(arr): the distinct elements, sorted ascending
unique(arr) == SortedSeq(Range(arr))

\* the counts of np.unique(arr, return_counts=True)
unique_counts(arr) ==
    LET u == unique(arr)
    IN  [k \in DOMAIN u |-> Cardinality(Positions(arr, u[k]))]

Maximum(S) == CHOOSE m \in S : \A x \in S : x <= m

\* count.max(initial=0): a variant that does not raise on an empty array
count_max_initial(count) ==
    [raises |-> FALSE, value |-> Maximum(Range(count) \cup {0})]

\* count.max(): a reduction of an empty array has no identity and raises
count_max(count) ==
    IF count = <<>> THEN [raises |-> TRUE, value |-> 0]
    ELSE [raises |-> FALSE, value |-> Maximum(Range(count))]

RECURSIVE BoolIndex(_, _)
\* arr[m] for a boolean array m of arr's length: the elements at the TRUE places
BoolIndex(arr, m) ==
    IF arr = <<>> THEN <<>>
    ELSE LET rest == BoolIndex(Tail(arr), Tail(m))
         IN  IF Head(m) THEN <<Head(arr)>> \o rest ELSE rest

\* pad with 0 for every field: a faulty variant
pad_zero(d_, after, key) == d_ \o Repeat(0, after)

\* np.pad(d_, (0, after), mode='constant',
\*        constant_values=-99 if key == 'MJD' else 0)
pad(d_, after, key) ==
    d_ \o Repeat(IF key = "MJD" THEN -99 ELSE 0, after)

\* np.concatenate(blocks, 1, dtype=np.float32) of the arrays
\* np.expand_dims(np.array(d), 1), one per field: element [b][c][t] is
\* element [b][t] of the c-th field, narrowed.
concatenate_blocks(blocks) ==
    LET nb == Len(blocks[1])
    IN  [shape |-> IF nb = 0 THEN <<0, Len(blocks)>>
                   ELSE <<nb, Len(blocks), Len(blocks[1][1])>>,
         v |-> [b \in 1..nb |->
                  [c \in 1..Len(blocks) |->
                     [t \in 1..Len(blocks[c][b]) |-> Float32(blocks[c][b][t])]]]]

NoTensor == [shape |-> <<>>, v |-> <<>>]

RECURSIVE Str(_)
\* str(n) of a non-negative integer, as character codes
Str(n) == IF n < 10 THEN <<48 + n>> ELSE Append(Str(n \div 10), 48 + (n % 10))

\* no padding at all: a faulty variant
zfill_none(s, width) == s

\* s.zfill(width) of a string of digits
zfill(s, width) == Repeat(48, width - Len(s)) \o s

nside == 16

\* hp.nside2npix(nside)
nside2npix(n) == 12 * n * n

\* hp.ang2pix(nside, ra, dec, lonlat=True, nest=True), of which the program
\* relies on two things: it is a function of the coordinates, and its value
\* is a pixel number in 0 .. nside2npix(nside) - 1.
ang2pix(n, ra, dec) == ((dec + 90) * 360 + ra) % nside2npix(n)

-----------------------------------------------------------------------------
(* The constants of main *)

\* ignored_keys, as Python reads the list: no comma follows
\* '#_keywords_from_LC_processing', so it and '#_PHOTCAT' are one string.
ignored_keys ==
    { "END", "FIELD", "FLAG", "MASK_USED",
      "#_keywords_from_LC_processing#_PHOTCAT",
      "#_CNTRD_FLUX_OFFSET", "#_HOSTNAME", "#_IMSIZE_PIX",
      "#_DIST_FROM_CENTER_DEG" }

keys_lightcurve == <<"MJD", "FLUXCAL", "FLUXCALERR">>

\* membership in a list that lost FLUXCALERR: a faulty variant
is_lightcurve_key_first_two(key) == key \in {"MJD", "FLUXCAL"}

\* key in keys_lightcurve
is_lightcurve_key(key) == key \in Range(keys_lightcurve)

\* name_conversion[key]
name_conversion(key) ==
    IF key = "RA" THEN "ra" ELSE IF key = "DECL" THEN "dec" ELSE key

\* lst.remove(x): lst without the first occurrence of x
remove(lst, x) ==
    LET k == CHOOSE k \in DOMAIN lst :
                lst[k] = x /\ \A h \in 1..(k - 1) : lst[h] # x
    IN  SubSeq(lst, 1, k - 1) \o SubSeq(lst, k + 1, Len(lst))

RECURSIVE remove_loop(_, _)
\* for key in lst: if key in ignored_keys: lst.remove(key)
\* The list iterator holds an index (idx, the number of elements it has
\* yielded) into the list the body shortens.
remove_loop(lst, idx) ==
    IF idx >= Len(lst) THEN lst
    ELSE IF lst[idx + 1] \in ignored_keys
         THEN remove_loop(remove(lst, lst[idx + 1]), idx + 1)
         ELSE remove_loop(lst, idx + 1)

remove_ignored(lst) == remove_loop(lst, 0)

-----------------------------------------------------------------------------
(* Names of the output *)

\* 'healpix='
healpix_prefix == <<104, 101, 97, 108, 112, 105, 120, 61>>

\* 'example_'
example_prefix == <<101, 120, 97, 109, 112, 108, 101, 95>>

\* '.h5'
example_suffix == <<46, 104, 53>>

healpix_num_digits == Len(Str(nside2npix(nside)))

\* f'healpix={healpix}' with healpix = str(h).zfill(healpix_num_digits)
healpix_dir(h) == healpix_prefix \o zfill(Str(h), healpix_num_digits)

object_id_num_digits(num_examples) == Len(Str(num_examples))

\* f'example_{object_id}.h5' with
\* object_id = str(id).zfill(object_id_num_digits)
example_file(id, num_examples) ==
    example_prefix \o zfill(Str(id), object_id_num_digits(num_examples))
                   \o example_suffix

\* np.arange(num_examples): ids from 0, a faulty variant
arange_from_zero(num_examples) == [k \in 1..num_examples |-> k - 1]

\* np.arange(1, num_examples + 1)
arange_from_one(num_examples) == [k \in 1..num_examples |-> k]

-----------------------------------------------------------------------------
(* main *)

others == <<files, input_dir, keys_metadata, keys_data, data, metadata,
            all_bands, i, d, lightcurve, lightcurve_additional, out_dirs,
            out_files, probe>>

\* an exception nothing catches: the run ends where it is
Abort(e) ==
    /\ pc' = "raised"
    /\ err' = e
    /\ UNCHANGED others

num_examples == Len(files)

\* Lines 24-32: list the directory and read the field names of files[0].
\* files[0] of an empty listing raises; so may the read of the file.
ReadExample ==
    /\ pc = "start"
    /\ \E readable \in BOOLEAN :
         IF files = <<>> THEN Abort("IndexError:29")
         ELSE IF ~readable THEN Abort("OSError:29")
         ELSE /\ keys_metadata' = files[1].mkeys
              /\ keys_data' = files[1].okeys
              /\ pc' = "ignore"
              /\ UNCHANGED <<files, input_dir, data, metadata, all_bands, i, d,
                             lightcurve, lightcurve_additional, out_dirs,
                             out_files, err, probe>>

\* Lines 34-61: drop the ignored keys, create the two dicts of empty lists.
RemoveIgnoredKeys ==
    /\ pc = "ignore"
    /\ keys_metadata' = remove_ignored(keys_metadata)
    /\ keys_data' = remove_ignored(keys_data)
    /\ data' = [key \in Range(keys_data') |-> <<>>]
    /\ metadata' = [key \in Range(keys_metadata') |-> <<>>]
    /\ i' = 0
    /\ pc' = "load"
    /\ UNCHANGED <<files, input_dir, all_bands, d, lightcurve,
                   lightcurve_additional, out_dirs, out_files, err, probe>>

\* the loop without its else branch: a faulty variant
append_missing_skipped(lists, present, values, default) ==
    [key \in DOMAIN lists |->
        IF key \in present THEN Append(lists[key], values[key]) ELSE lists[key]]

\* for key in keys: if key in values.keys(): lists[key].append(values[key])
\*                  else: lists[key].append(default)
append_all(lists, present, values, default) ==
    [key \in DOMAIN lists |->
        Append(lists[key], IF key \in present THEN values[key] ELSE default)]

\* Lines 63-74, one iteration: read a file and append its columns and scalars.
LoadFile ==
    /\ pc = "load"
    /\ i < num_examples
    /\ \E readable \in BOOLEAN :
         IF ~readable THEN Abort("OSError:65")
         ELSE LET file == files[i + 1]
              IN  /\ data' = append_all(data, Range(file.okeys), file.obs, <<>>)
                  /\ metadata' = append_all(metadata, Range(file.mkeys),
                                            file.meta, NaN)
                  /\ i' = i + 1
                  /\ UNCHANGED <<pc, files, input_dir, keys_metadata, keys_data,
                                 all_bands, d, lightcurve, lightcurve_additional,
                                 out_dirs, out_files, err, probe>>

\* Lines 76-92: the band vocabulary; FLT leaves keys_data.
ComputeBands ==
    /\ pc = "load"
    /\ i = num_examples
    /\ IF "FLT" \notin DOMAIN data THEN Abort("KeyError:77")
       ELSE /\ all_bands' = unique(Concat(data["FLT"]))
            /\ keys_data' = remove(keys_data, "FLT")
            /\ lightcurve' = <<>>
            /\ lightcurve_additional' = <<>>
            /\ i' = 0
            /\ pc' = "align"
            /\ UNCHANGED <<files, input_dir, keys_metadata, data, metadata, d,
                           out_dirs, out_files, err, probe>>

\* mask[j][r] of line 97 for example ex
mask(ex) ==
    [j \in DOMAIN all_bands |->
        [r \in DOMAIN data["FLT"][ex] |-> all_bands[j] = data["FLT"][ex][r]]]

\* the number of rows instead of the largest count: a faulty variant
total_length(ex) ==
    [raises |-> data["FLT"][ex] = <<>>, value |-> Len(data["FLT"][ex])]

\* max_length of lines 95-96 for example ex
max_length(ex) == count_max(unique_counts(data["FLT"][ex]))

\* the list d of lines 101-109 for one field of example ex: per band, the
\* field's values at the band's rows, padded to max_length
padded_rows(key, ex) ==
    [j \in DOMAIN all_bands |->
        LET d_ == BoolIndex(data[key][ex], mask(ex)[j])
        IN  pad(d_, max_length(ex).value - Len(d_), key)]

is_additional_key(key) == ~is_lightcurve_key(key)

\* Lines 94-121, one iteration: the two tensors of one example.
AlignExample ==
    /\ pc = "align"
    /\ i < num_examples
    /\ LET ex == i + 1
           core == SelectSeq(keys_data, is_lightcurve_key)
           additional == SelectSeq(keys_data, is_additional_key)
       IN  IF max_length(ex).raises THEN Abort("ValueError:96")
           ELSE IF /\ all_bands # <<>>
                   /\ \E k \in DOMAIN keys_data :
                        Len(data[keys_data[k]][ex]) # Len(data["FLT"][ex])
                THEN Abort("IndexError:103")
           ELSE IF core = <<>> THEN Abort("ValueError:117")
           ELSE IF additional = <<>> THEN Abort("ValueError:118")
           ELSE /\ d' = [key \in Range(keys_data) |-> padded_rows(key, ex)]
                /\ lightcurve' = Append(lightcurve,
                      concatenate_blocks(
                          [c \in DOMAIN core |-> padded_rows(core[c], ex)]))
                /\ lightcurve_additional' = Append(lightcurve_additional,
                      concatenate_blocks(
                          [c \in DOMAIN additional |->
                              padded_rows(additional[c], ex)]))
                /\ i' = i + 1
                /\ UNCHANGED <<pc, files, input_dir, keys_metadata, keys_data,
                               data, metadata, all_bands, out_dirs, out_files,
                               err, probe>>

\* What hp.ang2pix may return for a longitude that is not a number: it
\* validates the latitude only, and the pixel of such a longitude is left
\* to the library.
UnspecifiedPix == {0, nside2npix(nside) - 1}

\* Lines 129-148: metadata arrays, object ids, healpix, bands as bytes.
\* RA or DECL missing from the first file is a KeyError; a DECL that is
\* not a number is refused by hp.ang2pix; an RA that is not a number is
\* refused or mapped to some pixel.
ConvertMetadata ==
    /\ pc = "align"
    /\ i = num_examples
    /\ \E refused \in BOOLEAN : \E unspecified \in UnspecifiedPix :
         LET conv == [key \in Range(keys_metadata) |->
                         convert_dtype_float(metadata[key])]
         IN  IF "RA" \notin DOMAIN conv \/ "DECL" \notin DOMAIN conv
             THEN Abort("KeyError:137")
             ELSE IF \/ \E f \in 1..num_examples : conv["DECL"][f].nan
                     \/ refused /\ \E f \in 1..num_examples : conv["RA"][f].nan
                  THEN Abort("ValueError:137")
             ELSE /\ metadata' =
                       [key \in DOMAIN conv \cup {"object_id", "healpix"} |->
                          IF key = "object_id"
                          THEN arange_from_one(num_examples)
                          ELSE IF key = "healpix"
                               THEN [f \in 1..num_examples |->
                                       IF conv["RA"][f].nan THEN unspecified
                                       ELSE ang2pix(nside, conv["RA"][f].v,
                                                    conv["DECL"][f].v)]
                          ELSE conv[key]]
                  /\ all_bands' = convert_dtype_str(all_bands)
                  /\ pc' = "mkdirs"
                  /\ UNCHANGED <<files, input_dir, keys_metadata, keys_data,
                                 data, i, d, lightcurve, lightcurve_additional,
                                 out_dirs, out_files, err, probe>>

\* Lines 150-155: one directory per healpix present.
MakeDirs ==
    /\ pc = "mkdirs"
    /\ \E writable \in BOOLEAN :
         IF ~writable THEN Abort("OSError:155")
         ELSE /\ out_dirs' = out_dirs \cup
                     {healpix_dir(metadata["healpix"][f]) : f \in 1..num_examples}
              /\ i' = 0
              /\ pc' = "save"
              /\ UNCHANGED <<files, input_dir, keys_metadata, keys_data, data,
                             metadata, all_bands, d, lightcurve,
                             lightcurve_additional, out_files, err, probe>>

\* path of lines 160-162 for example ex
path(ex) ==
    <<healpix_dir(metadata["healpix"][ex]),
      example_file(metadata["object_id"][ex], num_examples)>>

\* the datasets of lines 164-172 for example ex
container(ex) ==
    [complete |-> TRUE,
     meta |-> [name \in {name_conversion(key) : key \in Range(keys_metadata)} |->
                 LET key == CHOOSE key \in Range(keys_metadata) :
                                name_conversion(key) = name
                 IN  metadata[key][ex]],
     bands |-> all_bands,
     lightcurve |-> lightcurve[ex],
     lightcurve_additional |-> lightcurve_additional[ex]]

\* a file h5py.File(path, 'w') created and a later create_dataset left unfinished
truncated_container ==
    [complete |-> FALSE, meta |-> <<>>, bands |-> <<>>,
     lightcurve |-> NoTensor, lightcurve_additional |-> NoTensor]

write(fs, p, c) == [q \in DOMAIN fs \cup {p} |-> IF q = p THEN c ELSE fs[q]]

\* Lines 157-172, one iteration: one container.  The open may fail, and so
\* may a write into the opened file.
SaveExample ==
    /\ pc = "save"
    /\ i < num_examples
    /\ \E outcome \in {"written", "open fails", "write fails"} :
         IF outcome = "open fails" THEN Abort("OSError:163")
         ELSE IF outcome = "write fails"
         THEN /\ out_files' = write(out_files, path(i + 1), truncated_container)
              /\ pc' = "raised"
              /\ err' = "OSError:166"
              /\ UNCHANGED <<files, input_dir, keys_metadata, keys_data, data,
                             metadata, all_bands, i, d, lightcurve,
                             lightcurve_additional, out_dirs, probe>>
         ELSE /\ out_files' = write(out_files, path(i + 1), container(i + 1))
              /\ i' = i + 1
              /\ UNCHANGED <<pc, files, input_dir, keys_metadata, keys_data,
                             data, metadata, all_bands, d, lightcurve,
                             lightcurve_additional, out_dirs, err, probe>>

\* the removal inside the save loop: a faulty variant
RemoveTreeAnyTime ==
    /\ pc = "save"
    /\ input_dir' = FALSE
    /\ pc' = "done"
    /\ UNCHANGED <<files, keys_metadata, keys_data, data, metadata, all_bands,
                   i, d, lightcurve, lightcurve_additional, out_dirs,
                   out_files, err, probe>>

\* Lines 174-175: after the last iteration of the save loop.
RemoveTree ==
    /\ pc = "save"
    /\ i = num_examples
    /\ input_dir' = FALSE
    /\ pc' = "done"
    /\ UNCHANGED <<files, keys_metadata, keys_data, data, metadata, all_bands,
                   i, d, lightcurve, lightcurve_additional, out_dirs,
                   out_files, err, probe>>

Next ==
    \/ ReadExample
    \/ RemoveIgnoredKeys
    \/ LoadFile
    \/ ComputeBands
    \/ AlignExample
    \/ ConvertMetadata
    \/ MakeDirs
    \/ SaveExample
    \/ RemoveTree

-----------------------------------------------------------------------------
(* The input directories the runs start from *)

\* band labels 'X', 'g', 'r': np.unique orders them by character code
band_X == <<88>>

band_g == <<103>>

band_r == <<114>>

Bands == {band_X, band_g, band_r}

\* every band-label column of at most n rows
BandSeqs(n) == UNION {[1..k -> Bands] : k \in 0..n}

FieldNo(key) ==
    CASE key = "FLUXCAL" -> 1
      [] key = "FLUXCALERR" -> 2
      [] key = "MAG" -> 3
      [] key = "MAGERR" -> 4
      [] key = "FIELD" -> 5
      [] key = "FLAG" -> 6
      [] key = "MWEBV" -> 7
      [] key = "PEAKMJD" -> 8
      [] OTHER -> 9

\* The value of a field in row r of file f.  Every value tells its field,
\* file and row, none is a padding constant, and the MJD values and the
\* MWEBV values are integers float32 does not hold.
Val(key, f, r) ==
    IF key \in {"MJD", "MWEBV"} THEN TwoTo24 + (20 * f) + (2 * r) + 1
    ELSE (1000 * FieldNo(key)) + (10 * f) + r

\* What sncosmo.read_snana_ascii returns for file f: the metadata names in
\* order with their scalars, the OBS column names in order with their
\* columns, all columns of one length.
MkFile(f, v) ==
    [mkeys |-> v.mkeys,
     meta |-> [key \in Range(v.mkeys) |->
                 IF key = "RA" THEN Num(v.ra)
                 ELSE IF key = "DECL" THEN Num(v.dec)
                 ELSE Num(Val(key, f, 0))],
     okeys |-> v.okeys,
     obs |-> [key \in Range(v.okeys) |->
                IF key = "FLT" THEN v.flt
                ELSE [r \in DOMAIN v.flt |-> Val(key, f, r)]]]

Variant(okeys, mkeys, flt, ra, dec) ==
    [okeys |-> okeys, mkeys |-> mkeys, flt |-> flt, ra |-> ra, dec |-> dec]

obs_full == <<"MJD", "FLT", "FLUXCAL", "FLUXCALERR", "MAG">>

meta_full == <<"RA", "DECL", "MWEBV">>

\* Files of the pipeline runs: the regular file with one, two or no rows,
\* files that lack a field of the others, files with a field more, a file
\* with ignored fields, a file without band column, one without RA.
ControlVariants ==
    { Variant(obs_full, meta_full, <<band_r, band_g>>, 10, 0),
      Variant(obs_full, meta_full, <<band_X>>, 200, -30),
      Variant(obs_full, meta_full, <<>>, 10, 0),
      Variant(obs_full, <<"RA", "DECL">>, <<band_g>>, 10, 0),
      Variant(<<"MJD", "FLT", "FLUXCAL", "FLUXCALERR">>, meta_full,
              <<band_g>>, 200, -30),
      Variant(<<"MJD", "FLT", "FLUXCAL", "FLUXCALERR", "MAG", "MAGERR">>,
              <<"RA", "DECL", "MWEBV", "PEAKMJD">>,
              <<band_g, band_g>>, 200, -30),
      Variant(<<"MJD", "FLT", "FIELD", "FLAG", "FLUXCAL", "FLUXCALERR", "MAG">>,
              <<"END", "RA", "DECL", "MWEBV">>, <<band_r>>, 10, 0),
      Variant(<<"MJD", "FLUXCAL", "FLUXCALERR", "MAG">>, meta_full,
              <<band_g>>, 10, 0),
      Variant(obs_full, <<"DECL", "MWEBV">>, <<band_g>>, 10, 0) }

Corpus(vs) == [f \in DOMAIN vs |-> MkFile(f, vs[f])]

ControlCorpora ==
    {Corpus(vs) : vs \in UNION {[1..n -> ControlVariants] : n \in 0..MaxFiles}}

\* Files of the alignment runs: every band column of at most MaxObs rows,
\* under four field lists: the regular one, one without FLUXCALERR, one
\* with two auxiliary fields in another order, one with ignored fields.
AlignSchemas ==
    { obs_full,
      <<"MJD", "FLT", "FLUXCAL", "MAG">>,
      <<"FLT", "MAGERR", "FLUXCALERR", "MJD", "MAG", "FLUXCAL">>,
      <<"MJD", "FLT", "FIELD", "FLAG", "FLUXCAL", "FLUXCALERR", "MAG">> }

AlignVariants ==
    {Variant(okeys, meta_full, flt, 10, 0) :
        okeys \in AlignSchemas, flt \in BandSeqs(MaxObs)}

\* a second file, with a band or a field list of its own
DonorX(okeys) == Variant(okeys, meta_full, <<band_X>>, 200, -30)

DonorRRG == Variant(obs_full, meta_full, <<band_r, band_r, band_g>>, 200, -30)

AlignCorpora ==
    {Corpus(<<v>>) : v \in AlignVariants}
    \cup {Corpus(<<v, DonorX(v.okeys)>>) : v \in AlignVariants}
    \cup {Corpus(<<DonorRRG, v>>) : v \in AlignVariants}

InitMain(corpora) ==
    /\ files \in corpora
    /\ pc = "start"
    /\ input_dir = TRUE
    /\ keys_metadata = <<>>
    /\ keys_data = <<>>
    /\ data = <<>>
    /\ metadata = <<>>
    /\ all_bands = <<>>
    /\ i = 0
    /\ d = <<>>
    /\ lightcurve = <<>>
    /\ lightcurve_additional = <<>>
    /\ out_dirs = {}
    /\ out_files = <<>>
    /\ err = ""
    /\ probe = [kind |-> "none"]

Init == InitMain(ControlCorpora)

Spec == Init /\ [][Next]_vars

InitAlign == InitMain(AlignCorpora)

SpecAlign == InitAlign /\ [][Next]_vars

-----------------------------------------------------------------------------
(* The denylist loop and the naming applied alone, on inputs the pipeline  *)
(* runs above are too small for                                            *)

InitIdle ==
    /\ files = <<>>
    /\ pc = "probe"
    /\ input_dir = TRUE
    /\ keys_metadata = <<>>
    /\ keys_data = <<>>
    /\ data = <<>>
    /\ metadata = <<>>
    /\ all_bands = <<>>
    /\ i = 0
    /\ d = <<>>
    /\ lightcurve = <<>>
    /\ lightcurve_additional = <<>>
    /\ out_dirs = {}
    /\ out_files = <<>>
    /\ err = ""

idle == <<pc, files, input_dir, keys_metadata, keys_data, data, metadata,
          all_bands, i, d, lightcurve, lightcurve_additional, out_dirs,
          out_files, err>>

\* Field names a first file may hold: names the list of line 35 spells,
\* names its two joined lines were meant to spell, and names it leaves.
FieldNames ==
    { "END", "FLAG", "MASK_USED", "#_keywords_from_LC_processing",
      "#_PHOTCAT", "#_HOSTNAME", "MJD", "RA" }

\* every list of at most n distinct names
KeyLists(n) ==
    UNION { {s \in [1..k -> FieldNames] :
                \A a, b \in 1..k : a # b => s[a] # s[b]} : k \in 0..n }

InitDeny ==
    /\ InitIdle
    /\ \E lst \in KeyLists(MaxKeys) :
         probe = [kind |-> "keys", lst |-> lst, out |-> <<>>, done |-> FALSE]

\* Lines 48-54 on one list.
RemoveIgnoredProbe ==
    /\ probe.kind = "keys"
    /\ ~probe.done
    /\ probe' = [probe EXCEPT !.out = remove_ignored(probe.lst), !.done = TRUE]
    /\ UNCHANGED idle

NextDeny == RemoveIgnoredProbe

SpecDeny == InitDeny /\ [][NextDeny]_vars

\* Corpus sizes: the small ones and those around a power of ten.
ExampleCounts == (1..MaxExamples) \cup {99, 100, 101}

\* Pixel numbers around the powers of ten, and the last one.
PixSamples == {0, 9, 10, 99, 100, 999, 1000, nside2npix(nside) - 1}

InitNames ==
    /\ InitIdle
    /\ \/ \E n \in ExampleCounts : \E a \in 1..n : \E b \in ExampleCounts :
            /\ b <= n
            /\ probe = [kind |-> "example", n |-> n, a |-> a, b |-> b,
                        names |-> <<>>]
       \/ \E a \in 0..(nside2npix(nside) - 1) : \E b \in PixSamples :
            probe = [kind |-> "healpix", n |-> nside2npix(nside), a |-> a,
                     b |-> b, names |-> <<>>]

\* Lines 158-162 for two object ids of a corpus of probe.n files.
NameExamples ==
    /\ probe.kind = "example"
    /\ probe.names = <<>>
    /\ probe' = [probe EXCEPT !.names = <<example_file(probe.a, probe.n),
                                         example_file(probe.b, probe.n)>>]
    /\ UNCHANGED idle

\* Lines 152-155 for two pixel numbers.
NameHealpix ==
    /\ probe.kind = "healpix"
    /\ probe.names = <<>>
    /\ probe' = [probe EXCEPT !.names = <<healpix_dir(probe.a),
                                         healpix_dir(probe.b)>>]
    /\ UNCHANGED idle

NextNames == NameExamples \/ NameHealpix

SpecNames == InitNames /\ [][NextNames]_vars

-----------------------------------------------------------------------------
(* What the properties below speak of, stated on the input files and the   *)
(* output, not on the operators main is modelled with                      *)

Terminated == pc \in {"done", "raised"}

\* the container of example f exists and was written to the end
Written(f) ==
    /\ "healpix" \in DOMAIN metadata
    /\ path(f) \in DOMAIN out_files
    /\ out_files[path(f)].complete

AllWritten == \A f \in 1..num_examples : Written(f)

HasColumn(f, key) == key \in Range(files[f].okeys)

\* the band-label sequence of input file f
FLTOf(f) == IF HasColumn(f, "FLT") THEN files[f].obs["FLT"] ELSE <<>>

\* the band labels that occur anywhere in the corpus
BandUnion == UNION {Range(FLTOf(f)) : f \in 1..num_examples}

StrictlyAscending(s) == \A k \in 1..(Len(s) - 1) : LexLess(s[k], s[k + 1])

IsVocabulary(bands) == Range(bands) = BandUnion /\ StrictlyAscending(bands)

\* the files whose band-label sequence is empty, in a corpus whose field
\* set has the band field
EmptyObjects ==
    IF num_examples = 0 \/ ~HasColumn(1, "FLT") THEN {}
    ELSE {f \in 1..num_examples : FLTOf(f) = <<>>}

RECURSIVE ParseInt(_)
\* the number a string of decimal digits spells
ParseInt(s) ==
    IF s = <<>> THEN 0
    ELSE (10 * ParseInt(SubSeq(s, 1, Len(s) - 1))) + (s[Len(s)] - 48)

\* the object id in the name of a container file
ObjectIdOf(p) ==
    ParseInt(SubSeq(p[2], Len(example_prefix) + 1,
                    Len(p[2]) - Len(example_suffix)))

\* container p holds the tensors of example f
Holds(p, f) ==
    /\ out_files[p].complete
    /\ out_files[p].lightcurve = lightcurve[f]
    /\ out_files[p].lightcurve_additional = lightcurve_additional[f]

-----------------------------------------------------------------------------
(* C1 *)

-----------------------------------------------------------------------------
(* C2 *)

\* C2: from the first reshaped object on, and in every state of the
\* alignment and the later phases, all_bands is the ascending list without
\* repetition of the band labels of the whole corpus, and every container
\* written holds that list as bands.
C2_BandVocabulary ==
    /\ (lightcurve # <<>> \/ pc \in {"align", "mkdirs", "save", "done"})
          => IsVocabulary(all_bands)
    /\ \A p \in DOMAIN out_files :
          out_files[p].complete =>
              /\ out_files[p].bands = all_bands
              /\ IsVocabulary(out_files[p].bands)

C2_Witness ==
    /\ pc = "done"
    /\ num_examples >= 2
    /\ Len(all_bands) >= 2
    /\ \E f \in 1..num_examples :
          /\ Range(FLTOf(f)) # BandUnion
          /\ out_files[path(f)].bands = all_bands

-----------------------------------------------------------------------------
(* C5 *)

\* C5: after a successful run every example f is held by exactly one
\* container, whose name spells the object id f; the ids of the containers
\* are 1 .. N, and there are N containers.
C5_PartitionComplete ==
    pc = "done" =>
        /\ \A f \in 1..num_examples :
              /\ Cardinality({p \in DOMAIN out_files : Holds(p, f)}) = 1
              /\ \A p \in DOMAIN out_files : Holds(p, f) => ObjectIdOf(p) = f
        /\ {ObjectIdOf(p) : p \in DOMAIN out_files} = 1..num_examples
        /\ Cardinality(DOMAIN out_files) = num_examples

C5_Witness ==
    /\ pc = "done"
    /\ num_examples >= 2
    /\ Cardinality(out_dirs) >= 2
    /\ Cardinality(DOMAIN out_files) = num_examples

-----------------------------------------------------------------------------
(* C6 *)

AlignErrors == {"ValueError:96", "IndexError:103", "ValueError:117", "ValueError:118"}

\* C6: in a corpus with an object of empty band-label sequence no tensor
\* is ever made for such an object, the exception that stops the alignment
\* at such an object is the one of max_length, the run never gets past the
\* alignment, nothing is written and the input directory stays.
C6_EmptyObjectAborts ==
    EmptyObjects # {} =>
        /\ \A f \in EmptyObjects : Len(lightcurve) < f
        /\ (pc = "raised" /\ err \in AlignErrors
                /\ Len(lightcurve) + 1 \in EmptyObjects)
              => err = "ValueError:96"
        /\ pc \notin {"mkdirs", "save", "done"}
        /\ out_files = <<>>
        /\ input_dir

C6_Witness ==
    /\ pc = "raised"
    /\ err = "ValueError:96"
    /\ Len(lightcurve) >= 1
    /\ Len(lightcurve) + 1 \in EmptyObjects
    /\ input_dir

-----------------------------------------------------------------------------
(* C10 *)

\* the names the denylist was written to hold
Denylist ==
    { "END", "FIELD", "FLAG", "MASK_USED", "#_keywords_from_LC_processing",
      "#_PHOTCAT", "#_CNTRD_FLUX_OFFSET", "#_HOSTNAME", "#_IMSIZE_PIX",
      "#_DIST_FROM_CENTER_DEG" }

\* C10: while and after the files are read, the collected fields are fields
\* of the first file (all of them but denylisted ones), and every collected
\* field has one entry per file read, the f-th being file f's value, or the
\* empty sequence (observation field) or NaN (metadata field) when file f
\* lacks the field.
C10_Ingestion ==
    pc \in {"load", "align"} =>
        LET n == IF pc = "load" THEN i ELSE num_examples
        IN  /\ DOMAIN data \subseteq Range(files[1].okeys)
            /\ Range(files[1].okeys) \ Denylist \subseteq DOMAIN data
            /\ DOMAIN metadata \subseteq Range(files[1].mkeys)
            /\ Range(files[1].mkeys) \ Denylist \subseteq DOMAIN metadata
            /\ pc = "load" => /\ DOMAIN data = Range(keys_data)
                              /\ DOMAIN metadata = Range(keys_metadata)
            /\ \A key \in DOMAIN data :
                  /\ Len(data[key]) = n
                  /\ \A f \in 1..n :
                        data[key][f] = IF HasColumn(f, key)
                                       THEN files[f].obs[key] ELSE <<>>
            /\ \A key \in DOMAIN metadata :
                  /\ Len(metadata[key]) = n
                  /\ \A f \in 1..n :
                        metadata[key][f] = IF key \in Range(files[f].mkeys)
                                           THEN files[f].meta[key] ELSE NaN

C10_Witness ==
    /\ pc = "align"
    /\ num_examples >= 2
    /\ \E f \in 1..num_examples : \E key \in DOMAIN data :
          ~HasColumn(f, key) /\ data[key][f] = <<>>
    /\ \E f \in 1..num_examples : \E key \in DOMAIN metadata :
          key \notin Range(files[f].mkeys) /\ metadata[key][f] = NaN
    /\ \E f \in 1..num_examples :
          Range(files[f].okeys) \ Range(files[1].okeys) # {}

-----------------------------------------------------------------------------
(* C3, C4, C9: the alignment, against the input files *)

CoreFields == {"MJD", "FLUXCAL", "FLUXCALERR"}

\* the rows of file f whose band label is band
RowsOf(f, band) == Positions(FLTOf(f), band)

\* the largest per-band observation count of file f
MaxLen(f) ==
    Maximum({Cardinality(RowsOf(f, all_bands[j])) : j \in DOMAIN all_bands})

\* the t-th smallest element of a set of numbers
Nth(S, t) == CHOOSE k \in S : Cardinality({h \in S : h < k}) = t - 1

PaddingOf(key) == IF key = "MJD" THEN -99 ELSE 0

\* the row claimed for field key and band number j of file f: the field's
\* values at the band's rows in their order, then padding up to MaxLen(f)
ExpectedRow(key, f, j) ==
    LET R == RowsOf(f, all_bands[j])
        n == Cardinality(R)
        column == files[f].obs[key]
        padding == PaddingOf(key)
    IN  [t \in 1..MaxLen(f) |->
            IF t <= n THEN column[Nth(R, t)] ELSE padding]

\* C3: of the example aligned last, d holds a list of rows for every
\* non-band observation field, and the row of every field and band is the
\* claimed one: of length max_len, the band's values in order, then -99
\* (MJD) or 0 (any other field).
C3_PaddedRows ==
    d # <<>> =>
        LET f == Len(lightcurve)
        IN  /\ DOMAIN d = DOMAIN data \ {"FLT"}
            /\ \A key \in DOMAIN d :
                  /\ HasColumn(f, key)
                  /\ DOMAIN d[key] = DOMAIN all_bands
                  /\ \A j \in DOMAIN all_bands :
                        d[key][j] = ExpectedRow(key, f, j)

\* bands {g: 3 observations, r: 1 observation}, and a band X of another file
C3_Witness ==
    /\ Len(lightcurve) = 1
    /\ d # <<>>
    /\ all_bands = <<band_X, band_g, band_r>>
    /\ DOMAIN d = {"MJD", "FLUXCAL", "FLUXCALERR", "MAG"}
    /\ Cardinality(RowsOf(1, band_g)) = 3
    /\ Cardinality(RowsOf(1, band_r)) = 1
    /\ Len(d["MJD"][2]) = 3
    /\ d["MJD"][3][2] = -99 /\ d["MJD"][3][3] = -99 /\ d["MJD"][3][1] > 0
    /\ d["FLUXCAL"][3][2] = 0 /\ d["FLUXCAL"][3][3] = 0 /\ d["FLUXCAL"][3][1] > 0
    /\ d["MJD"][1] = <<-99, -99, -99>>
    /\ d["FLUXCALERR"][1] = <<0, 0, 0>>

\* the number of core fields among the observation fields of the first file
NumCore == Cardinality(CoreFields \cap Range(files[1].okeys))

\* the number of non-band, non-core fields of the observation field set
NumAux == Cardinality((DOMAIN data \ {"FLT"}) \ CoreFields)

\* C4, as stated: every core tensor has shape (len(bands), 3, max_len) and
\* every auxiliary tensor (len(bands), num_aux_fields, max_len).
C4_ShapeThreeCore ==
    \A f \in 1..Len(lightcurve) :
        /\ lightcurve[f].shape = <<Len(all_bands), 3, MaxLen(f)>>
        /\ lightcurve_additional[f].shape = <<Len(all_bands), NumAux, MaxLen(f)>>

\* C4, with the number of core fields the first file has: every core tensor
\* has shape (len(bands), that number, max_len), every auxiliary tensor
\* (len(bands), num_aux_fields, max_len); the number is 3 when the first
\* file has the three core fields; every container written holds tensors
\* of these shapes, with a first axis as long as its bands.
C4_Shape ==
    /\ \A f \in 1..Len(lightcurve) :
          /\ lightcurve[f].shape = <<Len(all_bands), NumCore, MaxLen(f)>>
          /\ lightcurve_additional[f].shape =
                <<Len(all_bands), NumAux, MaxLen(f)>>
          /\ CoreFields \subseteq Range(files[1].okeys) =>
                lightcurve[f].shape[2] = 3
    /\ \A p \in DOMAIN out_files :
          out_files[p].complete =>
              /\ out_files[p].lightcurve.shape[1] = Len(out_files[p].bands)
              /\ out_files[p].lightcurve_additional.shape[1] =
                    Len(out_files[p].bands)
              /\ out_files[p].lightcurve.shape[3] =
                    out_files[p].lightcurve_additional.shape[3]

C4_Witness ==
    /\ pc = "done"
    /\ Len(lightcurve) = 2
    /\ lightcurve[1].shape = <<3, 3, 3>>
    /\ lightcurve_additional[1].shape = <<3, 1, 3>>
    /\ lightcurve[2].shape = <<3, 3, 1>>
    /\ Cardinality(DOMAIN out_files) = 2

\* channel c of a tensor: per band, the row of the c-th field
Channel(T, c) == [b \in DOMAIN T.v |-> T.v[b][c]]

\* what a tensor holds of field key of file f
ExpectedChannel(key, f) ==
    [j \in DOMAIN all_bands |->
        LET row == ExpectedRow(key, f, j)
        IN  [t \in DOMAIN row |-> Float32(row[t])]]

\* the tensor slots of example f that hold field key
Slots(key, f) ==
    LET expected == ExpectedChannel(key, f)
    IN  {<<"lightcurve", c>> : c \in
            {c \in 1..lightcurve[f].shape[2] :
                Channel(lightcurve[f], c) = expected}}
        \cup
        {<<"lightcurve_additional", c>> : c \in
            {c \in 1..lightcurve_additional[f].shape[2] :
                Channel(lightcurve_additional[f], c) = expected}}

\* C9: in every example every non-band observation field has exactly one
\* slot, in the core tensor if and only if it is MJD, FLUXCAL or FLUXCALERR,
\* the same slot as in the first example; and the two tensors have as many
\* slots as there are fields.
C9_SlotAssignment ==
    \A f \in 1..Len(lightcurve) :
        /\ \A key \in DOMAIN data \ {"FLT"} :
              LET slots == Slots(key, f)
              IN  /\ Cardinality(slots) = 1
                  /\ slots = Slots(key, 1)
                  /\ \A s \in slots :
                        s[1] = "lightcurve" <=> key \in CoreFields
        /\ lightcurve[f].shape[2] + lightcurve_additional[f].shape[2]
              = Cardinality(DOMAIN data \ {"FLT"})

C9_Witness ==
    /\ Len(lightcurve) = 2
    /\ MaxLen(1) # MaxLen(2)
    /\ DOMAIN data = {"FLT", "MAGERR", "FLUXCALERR", "MJD", "MAG", "FLUXCAL"}
    /\ Slots("FLUXCALERR", 2) = {<<"lightcurve", 1>>}
    /\ Slots("MJD", 2) = {<<"lightcurve", 2>>}
    /\ Slots("FLUXCAL", 2) = {<<"lightcurve", 3>>}
    /\ Slots("MAGERR", 2) = {<<"lightcurve_additional", 1>>}
    /\ Slots("MAG", 2) = {<<"lightcurve_additional", 2>>}

-----------------------------------------------------------------------------
(* C7 *)

\* C7: the names of two object ids of a corpus, and of two pixel numbers,
\* have the width of the largest value's digits plus the fixed parts, and
\* are in the lexicographic order that is the numeric order of the ids.
C7_NameOrder ==
    (probe.kind \in {"example", "healpix"} /\ probe.names # <<>>) =>
        LET fixed == IF probe.kind = "example"
                     THEN Len(example_prefix) + Len(example_suffix)
                     ELSE Len(healpix_prefix)
        IN  /\ Len(probe.names[1]) = fixed + Len(Str(probe.n))
            /\ Len(probe.names[2]) = fixed + Len(Str(probe.n))
            /\ probe.a < probe.b <=> LexLess(probe.names[1], probe.names[2])
            /\ probe.a = probe.b <=> probe.names[1] = probe.names[2]

C7_Witness ==
    /\ probe.kind = "example"
    /\ probe.names # <<>>
    /\ probe.n = 10
    /\ probe.a = 2
    /\ probe.b = 10
    /\ LexLess(probe.names[1], probe.names[2])

-----------------------------------------------------------------------------
(* C8 *)

\* C8: after the removal loop the list holds no denylisted name and every
\* other name it held before.
C8_DenylistRemoved ==
    (probe.kind = "keys" /\ probe.done) =>
        Range(probe.out) = Range(probe.lst) \ Denylist

=============================================================================
